---------------------------- MODULE Spec2Model ----------------------------
(***************************************************************************)
(* Model of src/gui.py: ESP32Device (frame parsing, admission, smoothing,  *)
(* rolling metrics), the line reassembly of ESP32Device.receive_data, and  *)
(* MultiDeviceManager with its receive_data threads.                       *)
(*                                                                         *)
(* Text is a sequence of one-character strings, so that strip/split/int    *)
(* are computed the way Python computes them.  An optional value (Python   *)
(* None or a value) is the empty sequence or a one-element sequence.       *)
(* Real-valued numpy results are kept exact: a mean is the rational        *)
(* [num, den]; a square root is kept as its radicand (float64 rounding is  *)
(* not modelled).                                                          *)
(***************************************************************************)
EXTENDS Integers, Sequences, FiniteSets, TLC

VARIABLES
    device,     \* the ESP32Device object: its fields, named as in __init__
    clock,      \* wall clock read by time.time() / datetime.now()
    last,       \* the last parse_data call: its argument, device before it, result
    rx,         \* receive_data: loop position, its locals buffer and data
    wire,       \* bytes the peer has still to send on the socket
    delivered,  \* bytes returned by sock.recv so far, in order
    parsed,     \* the lines receive_data has passed to parse_data, in order
    conn,       \* the last connect() call: whether the transport opened,
                \* the value returned and the device when it returned
    mgr,        \* the MultiDeviceManager object: running, devices, threads
    socks,      \* per device of the manager: its socket and what the peer
                \* has still to send
    threads,    \* the receive_data threads started: device, position, locals
    main,       \* the thread that calls the manager: the call it is in
    snap        \* the value the last get_all_data() returned

soloVars == <<device, last, rx, wire, delivered, parsed, conn>>

mgrVars == <<mgr, socks, threads, main, snap>>

vars == <<device, clock, last, rx, wire, delivered, parsed, conn,
          mgr, socks, threads, main, snap>>

---------------------------------------------------------------------------
(* Bounds of the model                                                     *)

MaxFrames == 4

MaxHrFrames == 6

MaxSpo2Frames == 6

MaxWindowFrames == 302

MaxPieces == 3

MaxCalls == 4

NumDevices == 2

MaxLifeFrames == 2

MaxRangeFrames == 4

---------------------------------------------------------------------------
(* Generic helpers                                                         *)

None == <<>>

Some(v) == <<v>>

IsSet(o) == o # <<>>

Val(o) == o[1]

Min(a, b) == IF a <= b THEN a ELSE b

(* the sum of s[lo..hi], halving the range *)
RECURSIVE SumRange(_, _, _)
SumRange(s, lo, hi) ==
    IF lo > hi THEN 0
    ELSE IF lo = hi THEN s[lo]
    ELSE LET mid == (lo + hi) \div 2
         IN  SumRange(s, lo, mid) + SumRange(s, mid + 1, hi)

SumSeq(s) == SumRange(s, 1, Len(s))

RECURSIVE Concat(_)
Concat(ss) == IF ss = <<>> THEN <<>> ELSE Head(ss) \o Concat(Tail(ss))

(* collections.deque(maxlen=cap).append(v): append on the right, and drop  *)
(* from the left once the length would exceed cap.                         *)
DequeAppend_KeepOldest(dq, v, cap) ==
    IF Len(dq) >= cap THEN dq ELSE Append(dq, v)

DequeAppend(dq, v, cap) ==
    LET a == Append(dq, v)
    IN  IF Len(a) > cap THEN SubSeq(a, Len(a) - cap + 1, Len(a)) ELSE a

---------------------------------------------------------------------------
(* Python text operations used by parse_data                               *)

Whitespace == {" ", "\t", "\n", "\r", "\f"}

DigitChars == <<"0", "1", "2", "3", "4", "5", "6", "7", "8", "9">>

IsDigit(c) == \E i \in 1..10 : DigitChars[i] = c

DigitVal(c) == (CHOOSE i \in 1..10 : DigitChars[i] = c) - 1

Least(S) == CHOOSE i \in S : \A j \in S : i <= j

Greatest(S) == CHOOSE i \in S : \A j \in S : j <= i

(* s from its first to its last position in `keep`, empty when there is none *)
Span(s, keep) ==
    IF keep = {} THEN <<>> ELSE SubSeq(s, Least(keep), Greatest(keep))

(* str.strip() *)
Strip(s) == Span(s, {i \in 1..Len(s) : s[i] \notin Whitespace})

LeastOrZero(S) == IF S = {} THEN 0 ELSE Least(S)

(* index of the first occurrence of character c in s, 0 when there is none *)
Find(s, c) == LeastOrZero({i \in 1..Len(s) : s[i] = c})

(* str.split(sep): always at least one part; parts may be empty *)
RECURSIVE Split(_, _)
SplitAt(s, sep, i) ==
    IF i = 0 THEN <<s>>
    ELSE <<SubSeq(s, 1, i - 1)>> \o Split(SubSeq(s, i + 1, Len(s)), sep)

Split(s, sep) == SplitAt(s, sep, Find(s, sep))

(* int(text) succeeds: optional surrounding whitespace, optional sign, then *)
(* decimal digits, single underscores allowed between digits               *)
Unsigned(s) == IF s # <<>> /\ s[1] \in {"+", "-"} THEN Tail(s) ELSE s

IsDigitRun(b) ==
    /\ b # <<>>
    /\ IsDigit(b[1])
    /\ IsDigit(b[Len(b)])
    /\ \A i \in 1..Len(b) : IsDigit(b[i]) \/ b[i] = "_"
    /\ \A i \in 1..(Len(b) - 1) : ~(b[i] = "_" /\ b[i + 1] = "_")

IsIntText(t) == IsDigitRun(Unsigned(Strip(t)))

RECURSIVE DigitsValue(_, _)
DigitsValue(b, acc) ==
    IF b = <<>> THEN acc
    ELSE IF Head(b) = "_" THEN DigitsValue(Tail(b), acc)
    ELSE DigitsValue(Tail(b), 10 * acc + DigitVal(Head(b)))

(* int(text), for a text on which it succeeds *)
SignedValue(s) ==
    IF s[1] = "-" THEN 0 - DigitsValue(Tail(s), 0)
    ELSE DigitsValue(Unsigned(s), 0)

IntOf(t) == SignedValue(Strip(t))

(* str(n) for an integer n: the text a device prints for a number *)
RECURSIVE NatText(_)
NatText(n) ==
    IF n < 10 THEN <<DigitChars[n + 1]>>
    ELSE NatText(n \div 10) \o <<DigitChars[(n % 10) + 1]>>

IntText(n) == IF n < 0 THEN <<"-">> \o NatText(0 - n) ELSE NatText(n)

---------------------------------------------------------------------------
(* Protocol keys and code literals                                         *)

K_HR == <<"H", "R">>

K_HR_VALID == <<"H", "R", "_", "V", "A", "L", "I", "D">>

K_SPO2 == <<"S", "P", "O", "2">>

K_SPO2_VALID == <<"S", "P", "O", "2", "_", "V", "A", "L", "I", "D">>

K_IR_AVG == <<"I", "R", "_", "A", "V", "G">>

K_IR_RANGE == <<"I", "R", "_", "R", "A", "N", "G", "E">>

K_TIMESTAMP == <<"T", "I", "M", "E", "S", "T", "A", "M", "P">>

K_STATUS == <<"S", "T", "A", "T", "U", "S">>

S_disconnected == <<"d", "i", "s", "c", "o", "n", "n", "e", "c", "t", "e", "d">>

S_connected == <<"c", "o", "n", "n", "e", "c", "t", "e", "d">>

S_receiving == <<"r", "e", "c", "e", "i", "v", "i", "n", "g">>

S_error == <<"e", "r", "r", "o", "r">>

HR_HISTORY_MAXLEN == 300

SMOOTHING_MAXLEN == 5

HR_MIN == 40

HR_MAX == 200

SPO2_MIN == 70

SPO2_MAX == 100

---------------------------------------------------------------------------
(* ESP32Device.__init__                                                    *)

InitLatestData ==
    [hr |-> None, hr_valid |-> FALSE, spo2 |-> None, spo2_valid |-> FALSE,
     ir_avg |-> None, ir_range |-> None, timestamp |-> None,
     local_time |-> None, status |-> S_disconnected]

InitMetrics ==
    [bpm |-> None, ipm |-> None, hrstd |-> None, rmssd |-> None,
     avg_spo2 |-> None]

(* the address a device is registered with when it is given one *)
MAC_ADDRESS == <<"A", "A", ":", "0", "1">>

(* ESP32Device(device_id, name, mac_address) with a MAC address *)
InitDevice ==
    [mac_address |-> Some(MAC_ADDRESS),
     connected |-> FALSE,
     latest_data |-> InitLatestData,
     hr_history |-> <<>>,
     timestamp_history |-> <<>>,
     hr_smoothing_buffer |-> <<>>,
     spo2_smoothing_buffer |-> <<>>,
     smoothed_hr |-> None,
     smoothed_spo2 |-> None,
     metrics |-> InitMetrics]

(* ESP32Device(device_id, name, mac_address); mac_address defaults to None *)
NewDevice(mac_address) == [InitDevice EXCEPT !.mac_address = mac_address]

---------------------------------------------------------------------------
(* ESP32Device.parse_data: tokenising                                      *)

(* parts = data_string.strip().split(','); the parts that contain ':' are  *)
(* split at their first ':' into <<key, value>>, in line order             *)
HasColon(part) == Find(part, ":") # 0

KeyValueAt(part, i) ==
    <<SubSeq(part, 1, i - 1), SubSeq(part, i + 1, Len(part))>>

KeyValue(part) == KeyValueAt(part, Find(part, ":"))

KeyValues(withColon) ==
    [i \in 1..Len(withColon) |-> KeyValue(withColon[i])]

KeyValueParts(data_string) ==
    KeyValues(SelectSeq(Split(Strip(data_string), ","), HasColon))

(* data_dict: data_dict[key] = value for each part in order, so the last   *)
(* part with a key decides its value                                       *)
LastAt(kvs, k) == Greatest({i \in 1..Len(kvs) : kvs[i][1] = k})

DictOf(kvs) ==
    [k \in {kvs[i][1] : i \in 1..Len(kvs)} |-> kvs[LastAt(kvs, k)][2]]

DataDict(data_string) == DictOf(KeyValueParts(data_string))

---------------------------------------------------------------------------
(* ESP32Device.parse_data: "Update latest data"                            *)
(* r = [ld, raised]: latest_data so far, and whether int() has raised.     *)
(* Once raised, the remaining statements of the try block are skipped.     *)

SetIntField_ResetAbsent(r, dd, key, field) ==
    IF r.raised THEN r
    ELSE IF key \notin DOMAIN dd THEN [r EXCEPT !.ld[field] = None]
    ELSE IF ~IsIntText(dd[key]) THEN [r EXCEPT !.raised = TRUE]
    ELSE [r EXCEPT !.ld[field] = Some(IntOf(dd[key]))]

SetIntField(r, dd, key, field) ==
    IF r.raised \/ key \notin DOMAIN dd THEN r
    ELSE IF ~IsIntText(dd[key]) THEN [r EXCEPT !.raised = TRUE]
    ELSE [r EXCEPT !.ld[field] = Some(IntOf(dd[key]))]

SetBoolField(r, dd, key, field) ==
    IF r.raised \/ key \notin DOMAIN dd THEN r
    ELSE IF ~IsIntText(dd[key]) THEN [r EXCEPT !.raised = TRUE]
    ELSE [r EXCEPT !.ld[field] = (IntOf(dd[key]) # 0)]

UpdateLatestData(latest_data, dd) ==
    SetIntField(
      SetIntField(
        SetIntField(
          SetBoolField(
            SetIntField(
              SetBoolField(
                SetIntField([ld |-> latest_data, raised |-> FALSE],
                            dd, K_HR, "hr"),
                dd, K_HR_VALID, "hr_valid"),
              dd, K_SPO2, "spo2"),
            dd, K_SPO2_VALID, "spo2_valid"),
          dd, K_IR_AVG, "ir_avg"),
        dd, K_IR_RANGE, "ir_range"),
      dd, K_TIMESTAMP, "timestamp")

(* local_time and the status message *)
StampStatus(ld, dd, now) ==
    [ld EXCEPT !.local_time = Some(now),
               !.status = IF K_STATUS \in DOMAIN dd THEN dd[K_STATUS]
                          ELSE S_receiving]

---------------------------------------------------------------------------
(* ESP32Device.parse_data: admission                                       *)

HrAdmissible_StrictBounds(ld) ==
    /\ ld.hr_valid
    /\ IsSet(ld.hr)
    /\ HR_MIN < Val(ld.hr)
    /\ Val(ld.hr) < HR_MAX

HrAdmissible(ld) ==
    /\ ld.hr_valid
    /\ IsSet(ld.hr)
    /\ HR_MIN <= Val(ld.hr)
    /\ Val(ld.hr) <= HR_MAX

(* the SpO2 admission test without its range test *)
Spo2Admissible_NoRange(ld) == ld.spo2_valid /\ IsSet(ld.spo2)

Spo2Admissible(ld) ==
    /\ ld.spo2_valid
    /\ IsSet(ld.spo2)
    /\ SPO2_MIN <= Val(ld.spo2)
    /\ Val(ld.spo2) <= SPO2_MAX

(* the heart-rate admission without the append to timestamp_history *)
AdmitHr_NoTimestamp(self, now) ==
    IF HrAdmissible(self.latest_data)
    THEN [self EXCEPT
            !.hr_history =
                DequeAppend(@, Val(self.latest_data.hr), HR_HISTORY_MAXLEN),
            !.hr_smoothing_buffer =
                DequeAppend(@, Val(self.latest_data.hr), SMOOTHING_MAXLEN)]
    ELSE self

AdmitHr(self, now) ==
    IF HrAdmissible(self.latest_data)
    THEN [self EXCEPT
            !.hr_history =
                DequeAppend(@, Val(self.latest_data.hr), HR_HISTORY_MAXLEN),
            !.timestamp_history = DequeAppend(@, now, HR_HISTORY_MAXLEN),
            !.hr_smoothing_buffer =
                DequeAppend(@, Val(self.latest_data.hr), SMOOTHING_MAXLEN)]
    ELSE self

AdmitSpo2(self) ==
    IF Spo2Admissible(self.latest_data)
    THEN [self EXCEPT
            !.spo2_smoothing_buffer =
                DequeAppend(@, Val(self.latest_data.spo2), SMOOTHING_MAXLEN)]
    ELSE self

AdmitSamples(self, now) == AdmitSpo2(AdmitHr(self, now))

---------------------------------------------------------------------------
(* ESP32Device.calculate_smoothed_values                                   *)

RECURSIVE InsertSorted(_, _)
InsertSorted(s, v) ==
    IF s = <<>> THEN <<v>>
    ELSE IF v <= Head(s) THEN <<v>> \o s
    ELSE <<Head(s)>> \o InsertSorted(Tail(s), v)

RECURSIVE Sorted(_)
Sorted(s) == IF s = <<>> THEN <<>> ELSE InsertSorted(Sorted(Tail(s)), Head(s))

(* int(np.mean(xs)) for non-negative integers: the mean, truncated *)
IntMean(xs) == SumSeq(xs) \div Len(xs)

(* int(np.median(xs)): the middle of the sorted values, or the mean of the *)
(* two middle ones, truncated                                              *)
MiddleOf(s, n) ==
    IF n % 2 = 1 THEN s[(n + 1) \div 2]
    ELSE (s[n \div 2] + s[(n \div 2) + 1]) \div 2

IntMedian(xs) == MiddleOf(Sorted(xs), Len(xs))

SmoothedHr_MeanOnly(buf, old) ==
    IF Len(buf) > 0 THEN Some(IntMean(buf)) ELSE old

SmoothedHr(buf, old) ==
    IF Len(buf) >= 3 THEN Some(IntMedian(buf))
    ELSE IF Len(buf) > 0 THEN Some(IntMean(buf))
    ELSE old

SmoothedSpo2_LastOnly(buf, old) ==
    IF Len(buf) > 0 THEN Some(buf[Len(buf)]) ELSE old

SmoothedSpo2(buf, old) ==
    IF Len(buf) >= 3 THEN Some(IntMean(buf))
    ELSE IF Len(buf) > 0 THEN Some(buf[Len(buf)])
    ELSE old

(* the smoothed values taken from the latest reading, not the buffers *)
CalculateSmoothedValues_FromLatest(self) ==
    [self EXCEPT
       !.smoothed_hr = self.latest_data.hr,
       !.smoothed_spo2 = self.latest_data.spo2]

CalculateSmoothedValues(self) ==
    [self EXCEPT
       !.smoothed_hr = SmoothedHr(self.hr_smoothing_buffer, @),
       !.smoothed_spo2 = SmoothedSpo2(self.spo2_smoothing_buffer, @)]

---------------------------------------------------------------------------
(* ESP32Device.calculate_metrics                                           *)

Rat(n, d) == [num |-> n, den |-> d]

(* np.mean(a) *)
NpMean(a) == Rat(SumSeq(a), Len(a))

(* np.std(a) = sqrt(mean(abs(a - a.mean()) ** 2)), kept as the radicand:   *)
(* a[i] - mean = (n * a[i] - sum) / n                                      *)
SquaredDeviations(a, n, s) ==
    [i \in 1..n |-> (n * a[i] - s) * (n * a[i] - s)]

NpStd_Sample(a) ==
    [radicand |-> Rat(SumSeq(SquaredDeviations(a, Len(a), SumSeq(a))),
                      Len(a) * Len(a) * (Len(a) - 1))]

NpStd(a) ==
    [radicand |-> Rat(SumSeq(SquaredDeviations(a, Len(a), SumSeq(a))),
                      Len(a) * Len(a) * Len(a))]

(* np.diff(a) *)
NpDiff(a) == [i \in 1..(Len(a) - 1) |-> a[i + 1] - a[i]]

(* np.sqrt(np.mean(np.diff(a) ** 2)), kept as the radicand *)
Squares(d) == [i \in 1..Len(d) |-> d[i] * d[i]]

Rmssd(a) == [radicand |-> NpMean(Squares(NpDiff(a)))]

(* the assignments to self.metrics, for hr_array a, the bpm just stored and *)
(* latest_data ld                                                          *)
MetricsOf(metrics, a, bpm, ld) ==
    [bpm |-> Some(bpm),
     ipm |-> Some(bpm),
     hrstd |-> Some(NpStd(a)),
     rmssd |-> IF Len(a) >= 2 THEN Some(Rmssd(a)) ELSE metrics.rmssd,
     avg_spo2 |-> IF ld.spo2_valid /\ IsSet(ld.spo2)
                  THEN ld.spo2 ELSE metrics.avg_spo2]

CalculateMetrics_NoGuard(self) ==
    IF Len(self.hr_history) < 1 THEN self
    ELSE [self EXCEPT !.metrics =
             MetricsOf(@, self.hr_history, NpMean(self.hr_history),
                       self.latest_data)]

CalculateMetrics(self) ==
    IF Len(self.hr_history) < 2 THEN self
    ELSE [self EXCEPT !.metrics =
             MetricsOf(@, self.hr_history, NpMean(self.hr_history),
                       self.latest_data)]

---------------------------------------------------------------------------
(* ESP32Device.parse_data                                                  *)
(* The result is the device after the call and the value returned.  When   *)
(* int() raises, the except branch returns False and the assignments made  *)
(* to latest_data before the raise stay.                                   *)

(* the rest of the try block, r being the result of the conversions *)
(* parse_data with the except clause left out: the exception of a        *)
(* conversion leaves parse_data                                            *)
FinishParse_NoHandler(self, r, dd, now) ==
    IF r.raised
    THEN [self |-> [self EXCEPT !.latest_data = r.ld], ok |-> FALSE,
          raised |-> TRUE]
    ELSE [self |->
            CalculateMetrics(
              CalculateSmoothedValues(
                AdmitSamples(
                  [self EXCEPT !.latest_data = StampStatus(r.ld, dd, now)],
                  now))),
          ok |-> TRUE,
          raised |-> FALSE]

(* the try block from the conversions on, and except Exception: print;     *)
(* return False.  raised: an exception leaves parse_data                   *)
FinishParse(self, r, dd, now) ==
    IF r.raised
    THEN [self |-> [self EXCEPT !.latest_data = r.ld], ok |-> FALSE,
          raised |-> FALSE]
    ELSE [self |->
            CalculateMetrics(
              CalculateSmoothedValues(
                AdmitSamples(
                  [self EXCEPT !.latest_data = StampStatus(r.ld, dd, now)],
                  now))),
          ok |-> TRUE,
          raised |-> FALSE]

ParseWith(self, dd, now) ==
    FinishParse(self, UpdateLatestData(self.latest_data, dd), dd, now)

ParseData(self, data_string, now) ==
    ParseWith(self, DataDict(data_string), now)

---------------------------------------------------------------------------
(* Frames a device may send: KEY:VALUE tokens joined by commas             *)

Tok(key, value) == key \o <<":">> \o value

RECURSIVE Line(_)
Line(tokens) ==
    IF Len(tokens) = 1 THEN tokens[1]
    ELSE tokens[1] \o <<",">> \o Line(Tail(tokens))

T_HR(v) == Tok(K_HR, IntText(v))

T_HR_VALID(v) == Tok(K_HR_VALID, IntText(v))

T_SPO2(v) == Tok(K_SPO2, IntText(v))

T_SPO2_VALID(v) == Tok(K_SPO2_VALID, IntText(v))

NotANumber == <<"7", "x">>

(* The frames of Spec: heart rates at and beyond both edges of the         *)
(* admission range, the validity flag set and cleared, SpO2 samples, a     *)
(* non-integer value at the first, a middle and the last converted key, a  *)
(* duplicated key, a status message, a line with no KEY:VALUE token, and a *)
(* full frame with surrounding blanks.                                     *)
Frames ==
    { Line(<<T_HR(40), T_HR_VALID(1)>>),
      Line(<<T_HR(200)>>),
      Line(<<T_HR(39)>>),
      Line(<<T_HR(201)>>),
      Line(<<T_HR_VALID(0)>>),
      Line(<<T_HR_VALID(2)>>),
      Line(<<T_SPO2(70), T_SPO2_VALID(1)>>),
      Line(<<T_SPO2(100)>>),
      Line(<<Tok(K_HR, NotANumber), T_SPO2(98)>>),
      Line(<<Tok(K_SPO2, NotANumber), T_HR(72)>>),
      Line(<<T_HR(72), T_HR_VALID(1), Tok(K_TIMESTAMP, NotANumber)>>),
      Line(<<T_HR(80), T_HR(75)>>),
      Line(<<Tok(K_STATUS, <<"N", "O", "_", "F", "I", "N", "G", "E", "R">>)>>),
      Line(<<Tok(K_IR_AVG, IntText(5)), Tok(K_IR_RANGE, IntText(3)),
             Tok(K_TIMESTAMP, IntText(9))>>),
      Line(<<<<"h", "e", "l", "l", "o">>>>),
      <<" ">> \o Line(<<T_HR(60), T_HR_VALID(1), T_SPO2(98),
                        T_SPO2_VALID(1)>>) \o <<"\r">> }

---------------------------------------------------------------------------
(* MultiDeviceManager.__init__ followed by add_device for two devices,     *)
(* each with a MAC address                                                 *)

DeviceIds == 1..NumDevices

(* what the peer of each device sends once connected, one recv per chunk,  *)
(* and then closes: the first device's peer sends one frame, the others    *)
(* send nothing                                                            *)
PeerSends ==
    [d \in DeviceIds |->
        IF d = 1
        THEN << Line(<<T_HR(72), T_HR_VALID(1), T_SPO2(98), T_SPO2_VALID(1)>>)
                    \o <<"\n">> >>
        ELSE << >>]

(* self.threads is the variable threads *)
InitManager ==
    [running |-> FALSE,
     devices |-> [d \in DeviceIds |-> InitDevice]]

InitSocks == [d \in DeviceIds |-> [sock |-> "none", wire |-> PeerSends[d]]]

InitMain == [pc |-> "idle", i |-> 0, calls |-> 0, last |-> "none"]

(* add_device(device_id, name, mac_address) for every device, at most one  *)
(* of them with a MAC address and the others without                       *)
Registries ==
    { [running |-> FALSE, devices |-> ds] :
          ds \in { r \in [DeviceIds ->
                              {NewDevice(Some(MAC_ADDRESS)), NewDevice(None)}] :
                       Cardinality({d \in DeviceIds : IsSet(r[d].mac_address)})
                           <= 1 } }

ManagerInit ==
    /\ mgr = InitManager
    /\ socks = InitSocks
    /\ threads = <<>>
    /\ main = InitMain
    /\ snap = None

---------------------------------------------------------------------------
(* State machine                                                           *)

NoCall == <<>>

Init ==
    /\ device = InitDevice
    /\ clock = 0
    /\ last = NoCall
    /\ rx = [pc |-> "idle", buffer |-> <<>>, data |-> <<>>]
    /\ wire = <<>>
    /\ delivered = <<>>
    /\ parsed = <<>>
    /\ conn = NoCall
    /\ ManagerInit

(* one call parse_data(line); the clock has advanced since the last call.   *)
(* A run makes at most `limit` calls.                                      *)
Returned(line, r) ==
    /\ device' = r.self
    /\ last' = Some([line |-> line, pre |-> device, ok |-> r.ok,
                     raised |-> r.raised])

CallParseData(line, limit) ==
    /\ clock < limit
    /\ Returned(line, ParseData(device, line, clock + 1))
    /\ clock' = clock + 1
    /\ UNCHANGED <<rx, wire, delivered, parsed, conn>>
    /\ UNCHANGED mgrVars

Next == \E line \in Frames : CallParseData(line, MaxFrames)

Spec == Init /\ [][Next]_vars

(* Heart-rate frames only: the samples of the smoothing example, in runs   *)
(* long enough for the 5-sample buffer to evict.                           *)
HrFrames ==
    { Line(<<T_HR(v), T_HR_VALID(1)>>) : v \in {72, 73, 74, 75, 200} }

NextHr == \E line \in HrFrames : CallParseData(line, MaxHrFrames)

SpecHr == Init /\ [][NextHr]_vars

(* SpO2 frames only: both edges of the range, neighbours whose means are   *)
(* not whole numbers, and one out-of-range value.                          *)
Spo2Frames ==
    { Line(<<T_SPO2(v), T_SPO2_VALID(1)>>) : v \in {70, 71, 99, 100} }
        \cup { Line(<<T_SPO2(101)>>) }

NextSpo2 == \E line \in Spo2Frames : CallParseData(line, MaxSpo2Frames)

SpecSpo2 == Init /\ [][NextSpo2]_vars

(* One long run that fills the history past its capacity: the k-th frame   *)
(* carries the k-th sample of a sawtooth whose period does not divide the  *)
(* capacity.                                                               *)
Sawtooth(k) == 40 + (k % 7)

WindowFrame(k) == Line(<<T_HR(Sawtooth(k)), T_HR_VALID(1)>>)

NextWindow == CallParseData(WindowFrame(clock + 1), MaxWindowFrames)

SpecWindow == Init /\ [][NextWindow]_vars

(* Frames around the edges of both admission ranges: heart rates and SpO2  *)
(* values just inside and just outside, flagged valid; a plausible value   *)
(* of each flagged invalid; and a frame whose HR value is not an integer.  *)
RangeFrames ==
    { Line(<<T_HR(v), T_HR_VALID(1)>>) : v \in {39, 40, 200, 201} }
        \cup { Line(<<T_SPO2(v), T_SPO2_VALID(1)>>) : v \in {69, 70, 100, 101} }
        \cup { Line(<<T_HR(72), T_HR_VALID(0)>>),
               Line(<<T_SPO2(98), T_SPO2_VALID(0)>>),
               Line(<<Tok(K_HR, NotANumber), T_SPO2(98)>>) }

NextRange == \E line \in RangeFrames : CallParseData(line, MaxRangeFrames)

SpecRange == Init /\ [][NextRange]_vars


---------------------------------------------------------------------------
(* ESP32Device.connect, MultiDeviceManager.start_receiving and             *)
(* ESP32Device.receive_data                                                *)

RECV_BUFSIZE == 1024

BYTE_FF == "0xFF"

AsciiBytes ==
    { "H", "R", ":", "7", "2", ",", " ", "\r", "\n" }
        \cup { "0", "1", "8", "9", "_", "V", "A", "L", "I", "D", "S", "P", "O" }

(* data.decode('utf-8', errors='ignore') on a chunk of ASCII bytes and     *)
(* bytes 0xFF: an ASCII byte is its character, and 0xFF, which no UTF-8    *)
(* sequence contains, is dropped.                                          *)
Decode(data) == SelectSeq(data, LAMBDA b : b \in AsciiBytes)

(* buffer += data.decode(...) *)
Reassemble_DropHeld(buffer, data) == Decode(data)

Reassemble(buffer, data) == buffer \o Decode(data)

(* while '\n' in buffer: line, buffer = buffer.split('\n', 1);             *)
(*     if line.strip(): self.parse_data(line)                              *)
(* st = [buffer, self, clock, last, parsed]                                *)
(* the loop state after parse_data(line) returned r *)
AfterLine(st, line, rest, r) ==
    [buffer |-> rest,
     self |-> r.self,
     clock |-> st.clock + 1,
     last |-> Some([line |-> line, pre |-> st.self, ok |-> r.ok,
                    raised |-> r.raised]),
     parsed |-> Append(st.parsed, line)]

RECURSIVE ProcessLines(_)
TakeLine(st, line, rest) ==
    IF Strip(line) = <<>>
    THEN ProcessLines([st EXCEPT !.buffer = rest])
    ELSE ProcessLines(
           AfterLine(st, line, rest, ParseData(st.self, line, st.clock + 1)))

SplitLine(st, i) ==
    IF i = 0 THEN st
    ELSE TakeLine(st, SubSeq(st.buffer, 1, i - 1),
                  SubSeq(st.buffer, i + 1, Len(st.buffer)))

ProcessLines(st) == SplitLine(st, Find(st.buffer, "\n"))

(* The byte streams a peer sends: up to MaxPieces pieces, which put a      *)
(* frame boundary, a blank line, an undecodable byte or nothing between    *)
(* the halves of a frame.                                                  *)
Pieces ==
    { <<"H", "R", ":", "7">>, <<"2", "\n">>, <<"\n">>, <<" ", "\r">>,
      <<BYTE_FF>> }

RECURSIVE StreamsOf(_)
StreamsOf(n) ==
    IF n = 0 THEN {<<>>}
    ELSE LET shorter == StreamsOf(n - 1)
         IN  shorter \cup {s \o p : s \in shorter, p \in Pieces}

Streams == StreamsOf(MaxPieces)

InitRecv ==
    /\ device = InitDevice
    /\ clock = 0
    /\ last = NoCall
    /\ rx = [pc |-> "idle", buffer |-> <<>>, data |-> <<>>]
    /\ wire \in Streams
    /\ delivered = <<>>
    /\ parsed = <<>>
    /\ conn = NoCall
    /\ ManagerInit

(* connect(), the MAC address being set: creating and connecting the     *)
(* socket succeeds (opens) or raises inside the try block, whose handler   *)
(* catches every Exception; the device after it, the value returned and    *)
(* whether an exception leaves connect()                                   *)
ConnectDevice_KeepStatus(self, opens) ==
    [self |-> [self EXCEPT
                 !.connected = opens,
                 !.latest_data.status = IF opens THEN S_connected ELSE @],
     ret |-> opens,
     raised |-> FALSE]

ConnectDevice(self, opens) ==
    [self |-> [self EXCEPT
                 !.connected = opens,
                 !.latest_data.status =
                     IF opens THEN S_connected ELSE S_error],
     ret |-> opens,
     raised |-> FALSE]

(* connect() with the test of the MAC address left out *)
DeviceConnect_NoMacTest(self, opens) == ConnectDevice(self, opens)

(* connect(): if self.mac_address is None: print; return False *)
DeviceConnect(self, opens) ==
    IF self.mac_address = None
    THEN [self |-> self, ret |-> FALSE, raised |-> FALSE]
    ELSE ConnectDevice(self, opens)

Connected(succeeds, r) ==
    /\ device' = r.self
    /\ conn' = Some([call |-> "connect", opens |-> succeeds, ret |-> r.ret,
                     raised |-> r.raised, pre |-> device, post |-> r.self])

Connect(succeeds) ==
    /\ rx.pc = "idle"
    /\ Connected(succeeds, DeviceConnect(device, succeeds))
    /\ UNCHANGED <<clock, last, rx, wire, delivered, parsed>>
    /\ UNCHANGED mgrVars

(* start_receiving(): a thread running receive_data, buffer = "" *)
StartReceiving ==
    /\ rx.pc = "idle"
    /\ device.connected
    /\ rx' = [pc |-> "running", buffer |-> <<>>, data |-> <<>>]
    /\ UNCHANGED <<device, clock, last, wire, delivered, parsed, conn>>
    /\ UNCHANGED mgrVars

(* one pass of the loop in which sock.recv(1024) returns k bytes *)
Received(data, st) ==
    /\ delivered' = delivered \o data
    /\ rx' = [rx EXCEPT !.buffer = st.buffer, !.data = data]
    /\ device' = st.self
    /\ clock' = st.clock
    /\ last' = st.last
    /\ parsed' = st.parsed

Recv(data) ==
    Received(data,
             ProcessLines([buffer |-> Reassemble(rx.buffer, data),
                           self |-> device, clock |-> clock,
                           last |-> last, parsed |-> parsed]))

RecvData(k) ==
    /\ rx.pc = "running"
    /\ device.connected
    /\ wire' = SubSeq(wire, k + 1, Len(wire))
    /\ Recv(SubSeq(wire, 1, k))
    /\ UNCHANGED conn
    /\ UNCHANGED mgrVars

(* one pass of the loop in which sock.recv raises bluetooth.BluetoothError *)
OnBluetoothError_KeepConnected(self) ==
    [self EXCEPT !.latest_data.status = S_error]

(* except bluetooth.BluetoothError: connected = False; status = 'error' *)
OnBluetoothError(self) ==
    [self EXCEPT !.connected = FALSE, !.latest_data.status = S_error]

RecvBluetoothError ==
    /\ rx.pc = "running"
    /\ device.connected
    /\ device' = OnBluetoothError(device)
    /\ rx' = [rx EXCEPT !.pc = "ended"]
    /\ UNCHANGED <<clock, last, wire, delivered, parsed, conn>>
    /\ UNCHANGED mgrVars

NextRecv ==
    \/ \E succeeds \in BOOLEAN : Connect(succeeds)
    \/ StartReceiving
    \/ \E k \in 1..Min(Len(wire), RECV_BUFSIZE) : RecvData(k)
    \/ RecvBluetoothError

SpecRecv == InitRecv /\ [][NextRecv]_vars

---------------------------------------------------------------------------
(* MultiDeviceManager: connect_all, start_receiving, stop, get_all_data,   *)
(* called one at a time by the main thread, and the receive_data threads   *)
(* that start_receiving starts, interleaved with it.                       *)
(*                                                                         *)
(* A receive_data thread is at one of: "test" (while self.connected),      *)
(* "recv" (in sock.recv), "lines" (while '\n' in buffer), "parse" (in      *)
(* parse_data, latest_data written, admission and the calculations still   *)
(* to do) or "ended".  Each step below is a block of statements that other *)
(* threads may run between; sock.recv is taken to return or raise.         *)

ThreadIds == 1..(MaxCalls * NumDevices)

Started(t) == t <= Len(threads)

Running(t) == Started(t) /\ threads[t].pc # "ended"

Dev(d) == mgr.devices[d]

(* --- the main thread --------------------------------------------------- *)

BeginCall(name, first) ==
    /\ main.pc = "idle"
    /\ main.calls < MaxCalls
    /\ main' = [pc |-> name, i |-> first, calls |-> main.calls + 1,
                last |-> name]

(* the call in progress moves to the next device, or returns *)
Advance ==
    main' = IF main.i < NumDevices
            THEN [main EXCEPT !.i = main.i + 1]
            ELSE [main EXCEPT !.pc = "idle", !.i = 0]

(* connect_all() is entered *)
CallConnectAll ==
    /\ BeginCall("connect_all", 1)
    /\ UNCHANGED <<mgr, socks, threads, snap, clock>>
    /\ UNCHANGED soloVars

(* connect_all(): for the next device, if device.mac_address:             *)
(* device.connect(); time.sleep(1)                                         *)
ConnectNext(opens) ==
    /\ main.pc = "connect_all"
    /\ IF IsSet(Dev(main.i).mac_address)
       THEN /\ mgr' = [mgr EXCEPT
                         !.devices[main.i] = DeviceConnect(@, opens).self]
            /\ socks' = [socks EXCEPT
                           ![main.i].sock =
                               IF opens THEN "open" ELSE "unconnected"]
       ELSE UNCHANGED <<mgr, socks>>
    /\ Advance
    /\ UNCHANGED <<threads, snap, clock>>
    /\ UNCHANGED soloVars

(* a new thread running receive_data of device d: buffer = "" *)
NewThread(d) == [dev |-> d, pc |-> "test", buffer |-> <<>>, line |-> <<>>]

RECURSIVE ThreadsFor(_)
ThreadsFor(d) ==
    IF d > NumDevices THEN <<>>
    ELSE (IF Dev(d).connected THEN <<NewThread(d)>> ELSE <<>>)
             \o ThreadsFor(d + 1)

(* start_receiving(): a thread for every device that is connected *)
CallStartReceiving ==
    /\ main.pc = "idle"
    /\ main.calls < MaxCalls
    /\ main' = [main EXCEPT !.calls = main.calls + 1,
                            !.last = "start_receiving"]
    /\ mgr' = [mgr EXCEPT !.running = TRUE]
    /\ threads' = threads \o ThreadsFor(1)
    /\ UNCHANGED <<socks, snap, clock>>
    /\ UNCHANGED soloVars

(* stop() is entered: self.running = False *)
CallStop ==
    /\ BeginCall("stop", 1)
    /\ mgr' = [mgr EXCEPT !.running = FALSE]
    /\ UNCHANGED <<socks, threads, snap, clock>>
    /\ UNCHANGED soloVars

(* disconnect(): the socket, if there is one, is closed *)
Closed(sock) == IF sock = "none" THEN "none" ELSE "closed"

Disconnect_KeepConnected(self) ==
    [self EXCEPT !.latest_data.status = S_disconnected]

(* disconnect() that also empties the histories and the buffers *)
Disconnect_ClearBuffers(self) ==
    [self EXCEPT !.connected = FALSE,
                 !.latest_data.status = S_disconnected,
                 !.hr_history = <<>>,
                 !.timestamp_history = <<>>,
                 !.hr_smoothing_buffer = <<>>,
                 !.spo2_smoothing_buffer = <<>>]

Disconnect(self) ==
    [self EXCEPT !.connected = FALSE, !.latest_data.status = S_disconnected]

(* stop(): device.disconnect() for the next device *)
DisconnectNext ==
    /\ main.pc = "stop"
    /\ socks' = [socks EXCEPT ![main.i].sock = Closed(@)]
    /\ mgr' = [mgr EXCEPT !.devices[main.i] = Disconnect(@)]
    /\ Advance
    /\ UNCHANGED <<threads, snap, clock>>
    /\ UNCHANGED soloVars

(* the rest of parse_data after latest_data is written: admission,         *)
(* calculate_smoothed_values, calculate_metrics                            *)
FinishFrameOf(self, now) ==
    CalculateMetrics(CalculateSmoothedValues(AdmitSamples(self, now)))

(* the fields of a device that are derived from its histories *)
Derived(self) ==
    [smoothed_hr |-> self.smoothed_hr,
     smoothed_spo2 |-> self.smoothed_spo2,
     metrics |-> self.metrics]

(* device d is between the two halves of a frame: a thread has written the *)
(* frame's reading and the history-derived fields are still those of the   *)
(* frame before, which the rest of parse_data is about to replace          *)
MidFrame(d) ==
    \E t \in 1..Len(threads) :
        /\ threads[t].dev = d
        /\ threads[t].pc = "parse"
        /\ Derived(Dev(d)) # Derived(FinishFrameOf(Dev(d), clock))

(* the dict get_all_data builds for device d: 'data' and 'metrics' are the *)
(* device's own dict objects, the other entries are values                 *)
SnapshotOf(d) ==
    [data |-> [ref |-> <<d, "latest_data">>],
     metrics |-> [ref |-> <<d, "metrics">>],
     connected |-> Dev(d).connected,
     smoothed_hr |-> Dev(d).smoothed_hr,
     smoothed_spo2 |-> Dev(d).smoothed_spo2]

(* get_all_data(): the value returned, with the devices as they were when  *)
(* it was built and whether each was then in the middle of a frame         *)
GetAllData ==
    /\ main.pc = "idle"
    /\ main.calls < MaxCalls
    /\ main' = [main EXCEPT !.calls = main.calls + 1,
                            !.last = "get_all_data"]
    /\ snap' = Some([ret |-> [d \in DeviceIds |-> SnapshotOf(d)],
                     devices |-> mgr.devices,
                     midframe |-> [d \in DeviceIds |-> MidFrame(d)]])
    /\ UNCHANGED <<mgr, socks, threads, clock>>
    /\ UNCHANGED soloVars

(* --- a receive_data thread --------------------------------------------- *)

At(t, pc) == Started(t) /\ threads[t].pc = pc

Goto(t, pc) == threads' = [threads EXCEPT ![t].pc = pc]

(* while self.connected: *)
TestConnected(t) ==
    /\ At(t, "test")
    /\ Goto(t, IF Dev(threads[t].dev).connected THEN "recv" ELSE "ended")
    /\ UNCHANGED <<mgr, socks, main, snap, clock>>
    /\ UNCHANGED soloVars

(* data = self.sock.recv(1024) returns the next chunk;                     *)
(* buffer += data.decode('utf-8', errors='ignore')                         *)
RecvChunk(t) ==
    /\ At(t, "recv")
    /\ socks[threads[t].dev].sock = "open"
    /\ socks[threads[t].dev].wire # <<>>
    /\ threads' = [threads EXCEPT
                     ![t].pc = "lines",
                     ![t].buffer =
                         Reassemble(@, Head(socks[threads[t].dev].wire))]
    /\ socks' = [socks EXCEPT ![threads[t].dev].wire = Tail(@)]
    /\ UNCHANGED <<mgr, main, snap, clock>>
    /\ UNCHANGED soloVars

(* sock.recv returns b'': the peer has closed; time.sleep(0.1) *)
RecvNothing(t) ==
    /\ At(t, "recv")
    /\ socks[threads[t].dev].sock = "open"
    /\ socks[threads[t].dev].wire = <<>>
    /\ Goto(t, "test")
    /\ UNCHANGED <<mgr, socks, main, snap, clock>>
    /\ UNCHANGED soloVars

(* the BluetoothError handler with connected and latest_data shared by    *)
(* every device                                                            *)
ErrorOn_AllDevices(devices, d) ==
    [e \in DOMAIN devices |-> OnBluetoothError(devices[e])]

(* the BluetoothError handler of the loop of device d assigns to the       *)
(* fields of its own device (self)                                         *)
ErrorOn(devices, d) == [devices EXCEPT ![d] = OnBluetoothError(@)]

(* sock.recv raises bluetooth.BluetoothError: the handler and break *)
RecvRaisesBluetoothError(t) ==
    /\ At(t, "recv")
    /\ mgr' = [mgr EXCEPT !.devices = ErrorOn(@, threads[t].dev)]
    /\ Goto(t, "ended")
    /\ UNCHANGED <<socks, main, snap, clock>>
    /\ UNCHANGED soloVars

(* sock.recv raises another exception: time.sleep(1) *)
RecvRaisesOther(t) ==
    /\ At(t, "recv")
    /\ Goto(t, "test")
    /\ UNCHANGED <<mgr, socks, main, snap, clock>>
    /\ UNCHANGED soloVars

(* parse_data(line) up to the status assignment: r is the outcome of the   *)
(* conversions; an exception leaves what was assigned and returns          *)
BeginFrame(t, d, rest, r, dd) ==
    IF r.raised
    THEN /\ mgr' = [mgr EXCEPT !.devices[d].latest_data = r.ld]
         /\ threads' = [threads EXCEPT ![t].buffer = rest]
    ELSE /\ mgr' = [mgr EXCEPT !.devices[d].latest_data =
                                   StampStatus(r.ld, dd, clock + 1)]
         /\ threads' = [threads EXCEPT ![t].buffer = rest, ![t].pc = "parse"]

BeginFrameWith(t, d, rest, dd) ==
    \E r \in {UpdateLatestData(Dev(d).latest_data, dd)} :
        BeginFrame(t, d, rest, r, dd)

(* line, buffer = buffer.split('\n', 1); if line.strip(): parse_data(line) *)
TakeNextLine(t, line, rest) ==
    IF Strip(line) = <<>>
    THEN /\ threads' = [threads EXCEPT ![t].buffer = rest]
         /\ UNCHANGED <<mgr, clock>>
    ELSE /\ \E dd \in {DataDict(line)} :
                BeginFrameWith(t, threads[t].dev, rest, dd)
         /\ clock' = clock + 1

NextLineAt(t, i) ==
    IF i = 0
    THEN Goto(t, "test") /\ UNCHANGED <<mgr, clock>>
    ELSE \E line \in {SubSeq(threads[t].buffer, 1, i - 1)} :
         \E rest \in {SubSeq(threads[t].buffer, i + 1,
                              Len(threads[t].buffer))} :
             TakeNextLine(t, line, rest)

(* while '\n' in buffer: one pass, or the end of the loop *)
NextLine(t) ==
    /\ At(t, "lines")
    /\ \E i \in {Find(threads[t].buffer, "\n")} : NextLineAt(t, i)
    /\ UNCHANGED <<socks, main, snap>>
    /\ UNCHANGED soloVars

(* parse_data: admission, the calculations, return True *)
FinishFrame(t) ==
    /\ At(t, "parse")
    /\ mgr' = [mgr EXCEPT !.devices[threads[t].dev] = FinishFrameOf(@, clock)]
    /\ Goto(t, "lines")
    /\ UNCHANGED <<socks, main, snap, clock>>
    /\ UNCHANGED soloVars

ThreadStep(t) ==
    \/ TestConnected(t)
    \/ RecvChunk(t)
    \/ RecvNothing(t)
    \/ RecvRaisesBluetoothError(t)
    \/ RecvRaisesOther(t)
    \/ NextLine(t)
    \/ FinishFrame(t)

NextMgr ==
    \/ CallConnectAll
    \/ \E opens \in BOOLEAN : ConnectNext(opens)
    \/ CallStartReceiving
    \/ CallStop
    \/ DisconnectNext
    \/ GetAllData
    \/ \E t \in ThreadIds : ThreadStep(t)

SpecMgr == Init /\ [][NextMgr]_vars

(* the manager with devices registered without a MAC address *)
InitRegistry ==
    /\ device = InitDevice
    /\ clock = 0
    /\ last = NoCall
    /\ rx = [pc |-> "idle", buffer |-> <<>>, data |-> <<>>]
    /\ wire = <<>>
    /\ delivered = <<>>
    /\ parsed = <<>>
    /\ conn = NoCall
    /\ mgr \in Registries
    /\ socks = InitSocks
    /\ threads = <<>>
    /\ main = InitMain
    /\ snap = None

SpecRegistry == InitRegistry /\ [][NextMgr]_vars

(* One session of the manager, as the application runs it: connect_all,    *)
(* then start_receiving, then stop, with the threads running throughout.   *)
NextSession ==
    \/ main.last = "none" /\ CallConnectAll
    \/ \E opens \in BOOLEAN : ConnectNext(opens)
    \/ main.last = "connect_all" /\ CallStartReceiving
    \/ main.last = "start_receiving" /\ CallStop
    \/ DisconnectNext
    \/ \E t \in ThreadIds : ThreadStep(t)

(* Weak fairness of every thread: a thread that has not ended can always  *)
(* take a step (each position has a step that is enabled whatever the      *)
(* other threads did), so ENABLED <<ThreadStep(t)>>_vars is Running(t),    *)
(* and WF_vars(ThreadStep(t)) is written out with it.  stop(), which only  *)
(* closes sockets and assigns, runs to its end.                            *)
FairThread(t) == []<>(~Running(t)) \/ []<><<ThreadStep(t)>>_vars

FairThreads == \A t \in ThreadIds : FairThread(t)

FairStop == WF_vars(DisconnectNext)

SpecSession == Init /\ [][NextSession]_vars /\ FairThreads /\ FairStop

(* Weak fairness of the threads of device d alone: the threads of the      *)
(* other devices may stay in sock.recv for ever.                           *)
FairLoopsOf(d) ==
    \A t \in ThreadIds :
        \/ []<>(~(Running(t) /\ threads[t].dev = d))
        \/ []<><<ThreadStep(t)>>_vars

(* the session in which only the threads of the first device, the one      *)
(* whose peer sends a frame, are scheduled fairly                          *)
SpecIndependent == Init /\ [][NextSession]_vars /\ FairLoopsOf(1)

---------------------------------------------------------------------------
(* One device through connect(), a receive_data loop, disconnect() and     *)
(* connect() again, each called at any time.  The loop takes one pass at a *)
(* time: the test of self.connected, the read and the lines of the chunk.  *)

(* disconnect() with the bare except left out: a close() that raises       *)
(* leaves disconnect() before the assignments                              *)
DeviceDisconnect_NoHandler(self, fails) ==
    [self |-> IF fails THEN self ELSE Disconnect(self), raised |-> fails]

(* disconnect(): if self.sock: try: self.sock.close() except: pass; then   *)
(* the two assignments.  fails: there is a socket and its close() raises   *)
DeviceDisconnect(self, fails) ==
    [self |-> Disconnect(self), raised |-> FALSE]

(* the lines a peer sends in this specification: two frames with a valid   *)
(* heart rate, and a line with an undecodable byte whose HR value is not   *)
(* an integer                                                              *)
LifeLines ==
    { Line(<<T_HR(72), T_HR_VALID(1), T_SPO2(98), T_SPO2_VALID(1)>>)
          \o <<"\n">>,
      Line(<<T_HR(80), T_HR_VALID(1)>>) \o <<"\n">>,
      <<"H", "R", ":", "7", BYTE_FF, " ", "2", "\n">> }

RECURSIVE LifeWiresOf(_)
LifeWiresOf(n) ==
    IF n = 0 THEN {<<>>}
    ELSE LET shorter == LifeWiresOf(n - 1)
         IN  shorter \cup {w \o l : w \in shorter, l \in LifeLines}

LifeWires == LifeWiresOf(MaxLifeFrames)

InitLife ==
    /\ device \in {NewDevice(Some(MAC_ADDRESS)), NewDevice(None)}
    /\ clock = 0
    /\ last = NoCall
    /\ rx = [pc |-> "idle", buffer |-> <<>>, data |-> <<>>]
    /\ wire \in LifeWires
    /\ delivered = <<>>
    /\ parsed = <<>>
    /\ conn = NoCall
    /\ ManagerInit

(* connect() *)
CallConnect(opens) ==
    /\ Connected(opens, DeviceConnect(device, opens))
    /\ UNCHANGED <<clock, last, rx, wire, delivered, parsed>>
    /\ UNCHANGED mgrVars

Disconnected(fails, r) ==
    /\ device' = r.self
    /\ conn' = Some([call |-> "disconnect", fails |-> fails,
                     raised |-> r.raised, pre |-> device, post |-> r.self])

(* disconnect() *)
CallDisconnect(fails) ==
    /\ Disconnected(fails, DeviceDisconnect(device, fails))
    /\ UNCHANGED <<clock, last, rx, wire, delivered, parsed>>
    /\ UNCHANGED mgrVars

(* a thread running receive_data is started when none is running *)
StartLoop ==
    /\ rx.pc # "running"
    /\ device.connected
    /\ rx' = [pc |-> "running", buffer |-> <<>>, data |-> <<>>]
    /\ UNCHANGED <<device, clock, last, wire, delivered, parsed, conn>>
    /\ UNCHANGED mgrVars

(* one pass in which sock.recv returns the bytes up to the next newline *)
RecvLine == \E k \in {Find(wire, "\n")} \ {0} : RecvData(k)

(* except Exception: print; time.sleep(1): the loop goes on *)
OnException == "running"

(* one pass in which sock.recv raises an exception that is not a           *)
(* BluetoothError                                                          *)
RecvOtherError ==
    /\ rx.pc = "running"
    /\ device.connected
    /\ rx' = [rx EXCEPT !.pc = OnException]
    /\ UNCHANGED <<device, clock, last, wire, delivered, parsed, conn>>
    /\ UNCHANGED mgrVars

(* while self.connected: is False, receive_data returns *)
LoopExit ==
    /\ rx.pc = "running"
    /\ ~device.connected
    /\ rx' = [rx EXCEPT !.pc = "returned"]
    /\ UNCHANGED <<device, clock, last, wire, delivered, parsed, conn>>
    /\ UNCHANGED mgrVars

NextLife ==
    \/ \E opens \in BOOLEAN : CallConnect(opens)
    \/ \E fails \in BOOLEAN : CallDisconnect(fails)
    \/ StartLoop
    \/ RecvLine
    \/ RecvBluetoothError
    \/ RecvOtherError
    \/ LoopExit

SpecLife == InitLife /\ [][NextLife]_vars

---------------------------------------------------------------------------
(* What a line says, read off the line itself                              *)

Called == IsSet(last)

Call == Val(last)

(* the line of the last call carries recognized key `key` *)
Carries(key) == key \in DOMAIN DataDict(Call.line)

(* ... and its value for that key, as an integer *)
Carried(key) == IntOf(DataDict(Call.line)[key])

IntKeys ==
    { <<K_HR, "hr">>, <<K_SPO2, "spo2">>, <<K_IR_AVG, "ir_avg">>,
      <<K_IR_RANGE, "ir_range">>, <<K_TIMESTAMP, "timestamp">> }

FlagKeys == { <<K_HR_VALID, "hr_valid">>, <<K_SPO2_VALID, "spo2_valid">> }

(* the newest cap elements of s *)
KeepLast(s, cap) ==
    IF Len(s) <= cap THEN s ELSE SubSeq(s, Len(s) - cap + 1, Len(s))

HrAppended(v) ==
    /\ device.hr_history = KeepLast(Append(Call.pre.hr_history, v), 300)
    /\ device.hr_smoothing_buffer =
           KeepLast(Append(Call.pre.hr_smoothing_buffer, v), 5)

HrUntouched ==
    /\ device.hr_history = Call.pre.hr_history
    /\ device.hr_smoothing_buffer = Call.pre.hr_smoothing_buffer

Spo2Untouched ==
    device.spo2_smoothing_buffer = Call.pre.spo2_smoothing_buffer

---------------------------------------------------------------------------
(* C1 as stated: a frame that carries a heart-rate value v appends v to    *)
(* hr_history and hr_smoothing_buffer if and only if 40 <= v <= 200,       *)
(* whatever else the frame or earlier frames hold.                         *)
C1_AdmittedIffInRange ==
    (Called /\ Carries(K_HR) /\ IsIntText(DataDict(Call.line)[K_HR])) =>
        IF 40 <= Carried(K_HR) /\ Carried(K_HR) <= 200
        THEN HrAppended(Carried(K_HR))
        ELSE HrUntouched

(* the heart-rate validity flag in effect for the line of the last call:   *)
(* the line's own HR_VALID when it has one, else the flag earlier lines left *)
HrFlagInEffect ==
    IF Carries(K_HR_VALID) THEN Carried(K_HR_VALID) # 0
    ELSE Call.pre.latest_data.hr_valid

(* C1 amended: a frame that carries a heart-rate value v appends v to      *)
(* hr_history and hr_smoothing_buffer if and only if the line is decoded   *)
(* (parse_data returns True), the heart-rate validity flag in effect is    *)
(* true and 40 <= v <= 200; otherwise both are left as they were.          *)
C1_AdmittedIffValidAndInRange ==
    (Called /\ Carries(K_HR) /\ IsIntText(DataDict(Call.line)[K_HR])) =>
        IF Call.ok /\ HrFlagInEffect
           /\ 40 <= Carried(K_HR) /\ Carried(K_HR) <= 200
        THEN HrAppended(Carried(K_HR))
        ELSE HrUntouched

(* C1 witness: an upper-edge sample is admitted on the flag an earlier     *)
(* frame left, after a sample that was already in the history.             *)
C1_Witness ==
    /\ Called /\ Call.ok
    /\ Carries(K_HR) /\ ~Carries(K_HR_VALID)
    /\ Carried(K_HR) = 200
    /\ Len(Call.pre.hr_history) = 1
    /\ device.hr_history = Append(Call.pre.hr_history, 200)

---------------------------------------------------------------------------
(* C2 as stated: a frame with no HR key appends nothing to hr_history or   *)
(* hr_smoothing_buffer, and a frame with no SPO2 key appends nothing to    *)
(* spo2_smoothing_buffer, after any earlier frames.                        *)
C2_NoKeyNoSample ==
    Called =>
        /\ ~Carries(K_HR) => HrUntouched
        /\ ~Carries(K_SPO2) => Spo2Untouched

---------------------------------------------------------------------------
(* C3 as stated: after a frame is parsed successfully, each reading field  *)
(* whose key the frame carries holds the frame's value and every other     *)
(* reading field is unset, whatever earlier frames contained.              *)
C3_AbsentKeysUnset ==
    (Called /\ Call.ok) =>
        /\ \A kf \in IntKeys :
              device.latest_data[kf[2]] =
                  IF Carries(kf[1]) THEN Some(Carried(kf[1])) ELSE None
        /\ \A kf \in FlagKeys :
              device.latest_data[kf[2]] =
                  IF Carries(kf[1]) THEN Carried(kf[1]) # 0 ELSE FALSE

(* C3 amended: after a frame is parsed successfully, each reading field    *)
(* whose key the frame carries holds the frame's value for it, and each    *)
(* reading field whose key is absent keeps the value it had before the     *)
(* frame (unset, or False for a flag, only if nothing set it before).      *)
C3_AbsentKeysKept ==
    (Called /\ Call.ok) =>
        /\ \A kf \in IntKeys :
              device.latest_data[kf[2]] =
                  IF Carries(kf[1]) THEN Some(Carried(kf[1]))
                  ELSE Call.pre.latest_data[kf[2]]
        /\ \A kf \in FlagKeys :
              device.latest_data[kf[2]] =
                  IF Carries(kf[1]) THEN Carried(kf[1]) # 0
                  ELSE Call.pre.latest_data[kf[2]]

(* C3 witness: a frame with only SPO2 is parsed after one that set hr; the *)
(* reading holds the new spo2 and the earlier hr.                          *)
C3_Witness ==
    /\ Called /\ Call.ok
    /\ Carries(K_SPO2) /\ ~Carries(K_HR)
    /\ device.latest_data.spo2 = Some(Carried(K_SPO2))
    /\ IsSet(Call.pre.latest_data.hr)
    /\ device.latest_data.hr = Call.pre.latest_data.hr

---------------------------------------------------------------------------
(* C4 as stated: a line parse_data fails to decode leaves the whole device *)
(* state as it was before the line.                                        *)
C4_FailedLineDropped ==
    (Called /\ ~Call.ok) => device = Call.pre

---------------------------------------------------------------------------
(* C9: while fewer than 2 heart-rate samples have been admitted to         *)
(* hr_history, the metrics bpm, ipm, hrstd and rmssd are all unset (None,  *)
(* not zero); from the frame that admits the second sample on they are all *)
(* set.                                                                    *)
C9_MetricsUnsetUntilTwoSamples ==
    LET m == device.metrics
    IN  IF Len(device.hr_history) < 2
        THEN m.bpm = None /\ m.ipm = None /\ m.hrstd = None /\ m.rmssd = None
        ELSE IsSet(m.bpm) /\ IsSet(m.ipm) /\ IsSet(m.hrstd) /\ IsSet(m.rmssd)

(* C9 witness: the frame that admits the second sample sets the metrics    *)
(* that were unset with one sample in the history.                         *)
C9_Witness ==
    /\ Called /\ Call.ok
    /\ Len(Call.pre.hr_history) = 1
    /\ Call.pre.metrics.bpm = None /\ Call.pre.metrics.rmssd = None
    /\ Len(device.hr_history) = 2
    /\ IsSet(device.metrics.bpm) /\ IsSet(device.metrics.rmssd)

---------------------------------------------------------------------------
SumOver(a, f(_)) == SumSeq([i \in 1..Len(a) |-> f(a[i])])

Square(x) == x * x

(* C10: with n >= 2 samples in hr_history the metrics describe exactly the *)
(* current window: bpm * n is the sum of the window, ipm = bpm, hrstd is   *)
(* the population standard deviation (hrstd^2 * n is the sum of squared    *)
(* deviations from the mean, that is sum(x^2) - sum(x)^2 / n), and         *)
(* rmssd^2 * (n - 1) is the sum of squared differences of consecutive      *)
(* samples, oldest to newest.                                              *)
C10_MetricsDescribeWindow ==
    LET a == device.hr_history
        n == Len(a)
        m == device.metrics
        bpm == Val(m.bpm)
        var == Val(m.hrstd).radicand
        msd == Val(m.rmssd).radicand
        sumsq == SumOver(a, Square)
        diffsq == SumSeq([i \in 1..(n - 1) |-> Square(a[i + 1] - a[i])])
    IN  n >= 2 =>
          /\ IsSet(m.bpm) /\ IsSet(m.ipm) /\ IsSet(m.hrstd) /\ IsSet(m.rmssd)
          /\ bpm.den > 0 /\ var.den > 0 /\ msd.den > 0
          /\ bpm.num * n = SumSeq(a) * bpm.den
          /\ m.ipm = m.bpm
          /\ var.num * n * n = (n * sumsq - Square(SumSeq(a))) * var.den
          /\ msd.num * (n - 1) = diffsq * msd.den

(* C10 witness: the window [60,60,60,60] with bpm 60, hrstd 0 and rmssd 0, *)
(* just after a successfully parsed frame.                                 *)
C10_Witness ==
    /\ Called /\ Call.ok
    /\ device.hr_history = <<60, 60, 60, 60>>
    /\ Val(device.metrics.bpm).num = 60 * Val(device.metrics.bpm).den
    /\ Val(device.metrics.hrstd).radicand.num = 0
    /\ Val(device.metrics.rmssd).radicand.num = 0

---------------------------------------------------------------------------
Count(buf, P(_)) == Cardinality({i \in 1..Len(buf) : P(buf[i])})

(* the k-th smallest element of buf, counted with repetitions *)
OrderStat(buf, k) ==
    CHOOSE v \in {buf[i] : i \in 1..Len(buf)} :
        /\ Count(buf, LAMBDA x : x < v) < k
        /\ k <= Count(buf, LAMBDA x : x <= v)

(* q is the quotient num / den truncated to an integer (num >= 0, den > 0) *)
IsTruncated(q, num, den) == q * den <= num /\ num < (q + 1) * den

(* C7: smoothed_hr is the median of hr_smoothing_buffer (at most 5         *)
(* samples) when it holds 3 or more samples, the arithmetic mean when it   *)
(* holds 1 or 2, and no value when it is empty, truncated to an integer;   *)
(* with 3 or more samples and a single strict maximum it is strictly below *)
(* that maximum.                                                           *)
C7_SmoothedHrMedianOrMean ==
    LET buf == device.hr_smoothing_buffer
        n == Len(buf)
        sm == device.smoothed_hr
    IN  /\ n <= 5
        /\ n = 0 => sm = None
        /\ n \in {1, 2} => IsSet(sm) /\ IsTruncated(Val(sm), SumSeq(buf), n)
        /\ (n >= 3 /\ n % 2 = 1) =>
              sm = Some(OrderStat(buf, (n + 1) \div 2))
        /\ (n >= 3 /\ n % 2 = 0) =>
              /\ IsSet(sm)
              /\ IsTruncated(Val(sm),
                     OrderStat(buf, n \div 2) + OrderStat(buf, (n \div 2) + 1),
                     2)
        /\ n >= 3 =>
              \A i \in 1..n :
                  (\A j \in 1..n : j # i => buf[j] < buf[i]) =>
                      Val(sm) < buf[i]

(* C7 witness: the samples 72, 75, 200, 74, 73 have been admitted in this  *)
(* order and smoothed_hr is 74.                                            *)
C7_Witness ==
    /\ Called /\ Call.ok
    /\ device.hr_smoothing_buffer = <<72, 75, 200, 74, 73>>
    /\ device.smoothed_hr = Some(74)

---------------------------------------------------------------------------
(* C8: smoothed_spo2 is the arithmetic mean of spo2_smoothing_buffer       *)
(* truncated to an integer when it holds 3 or more samples, the most       *)
(* recently admitted SpO2 value when it holds 1 or 2, and no value when it *)
(* is empty.                                                               *)
C8_SmoothedSpo2MeanOrLast ==
    LET buf == device.spo2_smoothing_buffer
        n == Len(buf)
        sm == device.smoothed_spo2
    IN  /\ n <= 5
        /\ n = 0 => sm = None
        /\ n \in {1, 2} => sm = Some(buf[n])
        /\ n >= 3 => IsSet(sm) /\ IsTruncated(Val(sm), SumSeq(buf), n)

(* C8 witness: a third admitted sample switches smoothed_spo2 from the     *)
(* latest value to a mean that is not a whole number, truncated.           *)
C8_Witness ==
    /\ Called /\ Call.ok
    /\ Call.pre.spo2_smoothing_buffer = <<70, 71>>
    /\ Call.pre.smoothed_spo2 = Some(71)
    /\ device.spo2_smoothing_buffer = <<70, 71, 100>>
    /\ device.smoothed_spo2 = Some(80)

---------------------------------------------------------------------------
(* C6: hr_history holds at most 300 entries and equals the last            *)
(* min(n, 300) admitted heart-rate samples in admission order, n being the *)
(* number admitted so far (here every frame is admitted, so n = clock and  *)
(* the k-th admitted sample is Sawtooth(k)).                               *)
C6_HistoryIsLast300 ==
    LET n == clock
        m == Min(n, 300)
    IN  /\ Len(device.hr_history) <= 300
        /\ device.hr_history = [i \in 1..m |-> Sawtooth(n - m + i)]

(* C6 witness: the 301st admission has evicted exactly the oldest entry.   *)
C6_Witness ==
    /\ clock = 301
    /\ Len(Call.pre.hr_history) = 300
    /\ Len(device.hr_history) = 300
    /\ device.hr_history[1] = Call.pre.hr_history[2]
    /\ device.hr_history[1] = Sawtooth(2)
    /\ device.hr_history[300] = Sawtooth(301)

---------------------------------------------------------------------------
(* the complete lines of a text: what precedes each newline *)
CompleteLines(text) ==
    LET parts == Split(text, "\n") IN SubSeq(parts, 1, Len(parts) - 1)

(* what follows the last newline of a text *)
Fragment(text) == LET parts == Split(text, "\n") IN parts[Len(parts)]

NonBlank(line) == \E i \in 1..Len(line) : line[i] \notin Whitespace

(* C5: however the stream is cut into recv chunks, the lines passed to     *)
(* parse_data are the non-blank complete lines of the bytes received so    *)
(* far, in stream order, and the text after the last newline is held in    *)
(* the buffer, unparsed: the same lines, buffer and device as when the     *)
(* bytes arrive in one chunk.                                              *)
C5_ReassemblyIgnoresChunking ==
    LET text == SelectSeq(delivered, LAMBDA b : b # BYTE_FF)
        one == ProcessLines([buffer |-> Reassemble(<<>>, delivered),
                             self |-> InitDevice, clock |-> 0,
                             last |-> NoCall, parsed |-> <<>>])
    IN  /\ parsed = SelectSeq(CompleteLines(text), NonBlank)
        /\ rx.buffer = Fragment(text)
        /\ delivered # <<>> =>
              /\ parsed = one.parsed
              /\ rx.buffer = one.buffer
              /\ device.latest_data.hr = one.self.latest_data.hr

(* C5 witness: the frame HR:72 arrived split after "HR:7", its end in one   *)
(* chunk with the first bytes of a next frame; parse_data was called once, *)
(* with the whole frame, and the fragment without newline is held.         *)
C5_Witness ==
    /\ rx.data = <<"2", "\n", "H", "R", ":", "7">>
    /\ delivered = <<"H", "R", ":", "7", "2", "\n", "H", "R", ":", "7">>
    /\ parsed = << <<"H", "R", ":", "7", "2">> >>
    /\ rx.buffer = <<"H", "R", ":", "7">>
    /\ device.latest_data.hr = Some(72)

---------------------------------------------------------------------------
(* the most recent SpO2 value that was admitted: the newest element of     *)
(* spo2_smoothing_buffer, which holds exactly the admitted values          *)
LastAdmittedSpo2 ==
    IF device.spo2_smoothing_buffer = <<>> THEN None
    ELSE Some(device.spo2_smoothing_buffer[Len(device.spo2_smoothing_buffer)])

(* C11 as stated: after every successfully parsed frame, avg_spo2 is the   *)
(* most recent admitted SpO2 value (flag true and 70 <= value <= 100), or  *)
(* unset if none was admitted; it is never outside [70,100] and does not   *)
(* depend on the number of heart-rate samples in the history.              *)
C11_AvgSpo2IsLastAdmitted ==
    (Called /\ Call.ok) =>
        /\ device.metrics.avg_spo2 = LastAdmittedSpo2
        /\ IsSet(device.metrics.avg_spo2) =>
              /\ SPO2_MIN <= Val(device.metrics.avg_spo2)
              /\ Val(device.metrics.avg_spo2) <= SPO2_MAX

---------------------------------------------------------------------------
(* Reading the value get_all_data returned                                 *)

Snapped == IsSet(snap)

Snapshot == Val(snap)

(* the object a reference held in the snapshot denotes, now *)
Deref(r) == mgr.devices[r.ref[1]][r.ref[2]]

(* what a consumer reads, now, in the snapshot entry of device d *)
SnapshotView(d) ==
    [data |-> Deref(Snapshot.ret[d].data),
     metrics |-> Deref(Snapshot.ret[d].metrics),
     connected |-> Snapshot.ret[d].connected,
     smoothed_hr |-> Snapshot.ret[d].smoothed_hr,
     smoothed_spo2 |-> Snapshot.ret[d].smoothed_spo2]

(* what the same entry held when get_all_data returned *)
SnapshotTaken(d) ==
    [data |-> Snapshot.devices[d].latest_data,
     metrics |-> Snapshot.devices[d].metrics,
     connected |-> Snapshot.devices[d].connected,
     smoothed_hr |-> Snapshot.devices[d].smoothed_hr,
     smoothed_spo2 |-> Snapshot.devices[d].smoothed_spo2]

(* C12 as stated: the value returned by get_all_data is an immutable copy; *)
(* for every device the data, metrics, connected and smoothed fields of a  *)
(* returned snapshot are not changed by any ingestion step, connect or     *)
(* disconnect that happens after get_all_data returned.                    *)
C12_SnapshotImmutable ==
    Snapped => \A d \in DeviceIds : SnapshotView(d) = SnapshotTaken(d)

---------------------------------------------------------------------------
(* C13 as stated: every per-device snapshot read by get_all_data while     *)
(* receive_data threads run is the device state as it was between two      *)
(* whole frames, never a mixture in which the latest reading reflects      *)
(* frame k while smoothed_hr, smoothed_spo2 and metrics still reflect      *)
(* frame k-1.                                                              *)
C13_SnapshotConsistent ==
    Snapped => \A d \in DeviceIds : ~Snapshot.midframe[d]

---------------------------------------------------------------------------
StopCalled == main.last = "stop"

StopReturned == main.last = "stop" /\ main.pc = "idle"

LoopsOf(d) == {t \in 1..Len(threads) : threads[t].dev = d}

AllLoopsEnded == \A t \in 1..Len(threads) : threads[t].pc = "ended"

---------------------------------------------------------------------------
(* C15 as stated: once stop() has been called and all ingestion loops have *)
(* ended, every device is Disconnected (connected False, status            *)
(* 'disconnected'), however stop() interleaved with the threads.           *)
C15_DisconnectedAfterStop ==
    (StopReturned /\ AllLoopsEnded) =>
        \A d \in DeviceIds :
            /\ ~Dev(d).connected
            /\ Dev(d).latest_data.status = S_disconnected

---------------------------------------------------------------------------
(* C16 as stated: stop() joins the ingestion loops; once stop() has        *)
(* returned no receive_data thread is still running, so no device state is *)
(* modified after stop() returns.                                          *)
C16_StopJoinsLoops ==
    StopReturned => AllLoopsEnded

---------------------------------------------------------------------------
(* C17 as stated: for any sequence of connect_all, start_receiving and     *)
(* stop calls, at most one receive_data loop per device is running at any  *)
(* time.                                                                   *)
C17_OneLoopPerDevice ==
    \A d \in DeviceIds :
        Cardinality({t \in LoopsOf(d) : threads[t].pc # "ended"}) <= 1

---------------------------------------------------------------------------
(* the peer of device d has closed: the socket is open, nothing is left to *)
(* arrive and a loop of d is reading, so every read returns zero bytes     *)
PeerClosed(d) ==
    /\ socks[d].sock = "open"
    /\ socks[d].wire = <<>>
    /\ \E t \in LoopsOf(d) : threads[t].pc = "recv"

(* the session of device d is in Error and its loops have stopped *)
InError(d) ==
    /\ ~Dev(d).connected
    /\ Dev(d).latest_data.status = S_error
    /\ \A t \in LoopsOf(d) : threads[t].pc = "ended"

(* C18 as stated: every transport failure during ingestion, a read that    *)
(* raises or an unexpected close by the peer, eventually moves the session *)
(* to Error: connected False, status 'error', the loop stopped.  A         *)
(* session that stop() ends first is not counted against the claim.        *)
C18_FailureLeadsToError ==
    \A d \in DeviceIds : PeerClosed(d) ~> (InError(d) \/ StopCalled)

---------------------------------------------------------------------------
(* the device state a read error must leave alone: everything but          *)
(* connected and the status field                                          *)
Frozen(self) ==
    [self EXCEPT !.connected = FALSE, !.latest_data.status = S_error]

(* C19: when a read in receive_data raises BluetoothError, the loop ends   *)
(* with connected False and status 'error'; the rest of the device state   *)
(* is what it was just before the error; the text held in the reassembly   *)
(* buffer is not parsed; and the ended loop changes nothing afterwards.    *)
C19_ErrorFreezesState ==
    [][/\ (rx.pc = "running" /\ rx'.pc = "ended") =>
            /\ ~device'.connected
            /\ device'.latest_data.status = S_error
            /\ device' = Frozen(device)
            /\ parsed' = parsed
            /\ rx'.buffer = rx.buffer
       /\ rx.pc = "ended" =>
            /\ device' = device
            /\ parsed' = parsed
            /\ rx'.pc = "ended"]_vars

(* C19 witness: the loop parsed HR:72, held the fragment "HR:7" of the     *)
(* next frame and ended on a read error: the fragment is still held and    *)
(* the reading of the parsed frame is still there.                         *)
C19_Witness ==
    /\ rx.pc = "ended"
    /\ rx.buffer = <<"H", "R", ":", "7">>
    /\ parsed = << <<"H", "R", ":", "7", "2">> >>
    /\ ~device.connected
    /\ device.latest_data.status = S_error
    /\ device.latest_data.hr = Some(72)

---------------------------------------------------------------------------
ConnectCalled == IsSet(conn)

ConnectCall == Val(conn)

(* C20: connect() on a device with a target set never raises; it returns   *)
(* True with connected True and status 'connected' exactly when opening    *)
(* the transport succeeds, and otherwise returns False with connected      *)
(* False and status 'error'.                                               *)
C20_ConnectReportsOutcome ==
    ConnectCalled =>
        /\ ~ConnectCall.raised
        /\ IF ConnectCall.opens
           THEN /\ ConnectCall.ret = TRUE
                /\ ConnectCall.post.connected
                /\ ConnectCall.post.latest_data.status = S_connected
           ELSE /\ ConnectCall.ret = FALSE
                /\ ~ConnectCall.post.connected
                /\ ConnectCall.post.latest_data.status = S_error

(* C20 witness: a connect() that failed on a device an earlier connect()   *)
(* had connected: it returned False and the device is in Error.            *)
C20_Witness ==
    /\ ConnectCalled
    /\ ConnectCall.pre.connected
    /\ ~ConnectCall.opens
    /\ ConnectCall.ret = FALSE
    /\ ~device.connected
    /\ device.latest_data.status = S_error


---------------------------------------------------------------------------
(* C21: a device registered without a MAC address stays disconnected,      *)
(* next to a device that has one or among devices that have none:          *)
(* connect() on it returns False, raises nothing and leaves the device as  *)
(* it was, and whatever calls of connect_all, start_receiving, stop and    *)
(* get_all_data have been made, it has no socket and no receive_data       *)
(* thread, connected is False and its status is 'disconnected'.            *)
NoTarget(d) == Dev(d).mac_address = None

C21_NoTargetStaysDisconnected ==
    \A d \in DeviceIds :
        NoTarget(d) =>
            /\ \A opens \in BOOLEAN :
                   DeviceConnect(Dev(d), opens)
                       = [self |-> Dev(d), ret |-> FALSE, raised |-> FALSE]
            /\ LoopsOf(d) = {}
            /\ socks[d].sock = "none"
            /\ ~Dev(d).connected
            /\ Dev(d).latest_data.status = S_disconnected

(* connect_all, start_receiving and stop have run over a device without a  *)
(* MAC address, next to a device that was connected and given a thread     *)
C21_Witness ==
    /\ main.last = "stop"
    /\ main.pc = "idle"
    /\ \E d \in DeviceIds : NoTarget(d)
    /\ \E e \in DeviceIds : ~NoTarget(e) /\ LoopsOf(e) # {}


---------------------------------------------------------------------------
DisconnectCalled == IsSet(conn) /\ Val(conn).call = "disconnect"

DisconnectCall == Val(conn)

(* C22: disconnect() is total and idempotent: whatever state the device    *)
(* is in, and whether or not closing the socket raises, it raises nothing  *)
(* and leaves connected False and status 'disconnected', and a second      *)
(* disconnect() right after it leaves the device exactly as the first did. *)
C22_DisconnectTotalIdempotent ==
    DisconnectCalled =>
        /\ ~DisconnectCall.raised
        /\ ~DisconnectCall.post.connected
        /\ DisconnectCall.post.latest_data.status = S_disconnected
        /\ \A fails \in BOOLEAN :
               DeviceDisconnect(DisconnectCall.post, fails)
                   = [self |-> DisconnectCall.post, raised |-> FALSE]

(* C22 witness: disconnect(), its close() raising, on a device that was    *)
(* connected and had received a frame, while its loop was still running    *)
C22_Witness ==
    /\ DisconnectCalled
    /\ DisconnectCall.fails
    /\ DisconnectCall.pre.connected
    /\ DisconnectCall.pre.latest_data.status = S_receiving
    /\ rx.pc = "running"
    /\ device = DisconnectCall.post
    /\ ~device.connected
    /\ device.latest_data.status = S_disconnected


---------------------------------------------------------------------------
(* C23: no exception leaves an ingestion loop: every parse_data call       *)
(* returns True or False and raises nothing, and receive_data ends only by *)
(* its loop condition ("returned") or by the BluetoothError branch         *)
(* ("ended"), whatever bytes arrive and whatever the read raises.          *)
C23_NoExceptionEscapes ==
    /\ Called => (~Call.raised /\ Call.ok \in BOOLEAN)
    /\ rx.pc \in {"idle", "running", "returned", "ended"}

(* C23 witness: the line HR:7<0xFF> 2, whose HR value int() rejects, was   *)
(* parsed: parse_data returned False and the loop is still running         *)
C23_Witness ==
    /\ Called
    /\ Call.line = <<"H", "R", ":", "7", " ", "2">>
    /\ Call.ok = FALSE
    /\ ~Call.raised
    /\ rx.pc = "running"
    /\ device.connected


---------------------------------------------------------------------------
(* thread t holds a complete line that recv delivered to its device *)
Delivered(t) == At(t, "lines") /\ Find(threads[t].buffer, "\n") # 0

(* thread t has parsed what it held, and its device has the sample *)
Processed(t) ==
    /\ Started(t)
    /\ threads[t].pc # "parse"
    /\ Find(threads[t].buffer, "\n") = 0
    /\ Dev(threads[t].dev).hr_history # <<>>

(* every device but the one thread t runs for, with its socket *)
OtherDevices(t) ==
    [d \in DeviceIds \ {threads[t].dev} |-> <<mgr.devices[d], socks[d]>>]

(* C24: devices are independent: a step of a receive_data thread changes   *)
(* no field and no socket of a device other than its own, and a frame      *)
(* delivered to a device is eventually processed by its loop when that     *)
(* loop is scheduled fairly, while the loops of the other devices stay in  *)
(* their read for ever, fail or have ended in Error.                       *)
C24_DevicesIndependent ==
    /\ [][\A t \in ThreadIds :
              ThreadStep(t) => OtherDevices(t)' = OtherDevices(t)]_vars
    /\ \A t \in ThreadIds : Delivered(t) ~> Processed(t)

(* C24 witness: the loop of the second device has ended in Error and the   *)
(* frame sent to the first device has been processed                       *)
C24_Witness ==
    /\ LoopsOf(2) # {}
    /\ InError(2)
    /\ \E t \in LoopsOf(1) : Processed(t)
    /\ Dev(1).hr_history = <<72>>


---------------------------------------------------------------------------
InRange(s, lo, hi) == \A i \in 1..Len(s) : lo <= s[i] /\ s[i] <= hi

(* C25: every element of hr_history and of hr_smoothing_buffer is in       *)
(* [40,200] and every element of spo2_smoothing_buffer is in [70,100],     *)
(* whatever frames have been processed.                                    *)
C25_BuffersInRange ==
    /\ InRange(device.hr_history, 40, 200)
    /\ InRange(device.hr_smoothing_buffer, 40, 200)
    /\ InRange(device.spo2_smoothing_buffer, 70, 100)

(* C25 witness: a frame with SPO2:101 flagged valid was processed after    *)
(* samples of both kinds had been admitted, and added nothing              *)
C25_Witness ==
    /\ Called
    /\ Call.line = Line(<<T_SPO2(101), T_SPO2_VALID(1)>>)
    /\ Call.ok
    /\ device.latest_data.spo2 = Some(101)
    /\ device.hr_history # <<>>
    /\ device.spo2_smoothing_buffer # <<>>
    /\ device.spo2_smoothing_buffer = Call.pre.spo2_smoothing_buffer


---------------------------------------------------------------------------
(* C26: hr_history and timestamp_history have the same length, and         *)
(* hr_smoothing_buffer is the newest min(5, k) of the k heart-rate samples *)
(* admitted so far, the newest end of what hr_history holds.  Every frame  *)
(* of SpecHr is admitted, so k is the number of calls.                     *)
C26_BuffersAligned ==
    /\ Len(device.hr_history) = Len(device.timestamp_history)
    /\ Len(device.hr_history) = clock
    /\ Len(device.hr_smoothing_buffer) = Min(5, clock)
    /\ device.hr_smoothing_buffer = KeepLast(device.hr_history, 5)

(* C26 witness: six samples admitted; the smoothing buffer holds the last  *)
(* five, which are not the first five                                      *)
C26_Witness ==
    /\ Len(device.hr_history) = 6
    /\ Len(device.timestamp_history) = 6
    /\ device.hr_smoothing_buffer = SubSeq(device.hr_history, 2, 6)
    /\ device.hr_smoothing_buffer # SubSeq(device.hr_history, 1, 5)


---------------------------------------------------------------------------
(* an optional value is unset or an integer from lo to hi *)
UnsetOrWithin(x, lo, hi) == IsSet(x) => Val(x) \in lo..hi

(* C27: smoothed_hr is unset or an integer in [40,200] and smoothed_spo2   *)
(* is unset or an integer in [70,100], and a parse_data call never takes   *)
(* either of them from set back to unset.                                  *)
C27_SmoothedInRange ==
    /\ UnsetOrWithin(device.smoothed_hr, 40, 200)
    /\ UnsetOrWithin(device.smoothed_spo2, 70, 100)
    /\ Called =>
           /\ IsSet(Call.pre.smoothed_hr) => IsSet(device.smoothed_hr)
           /\ IsSet(Call.pre.smoothed_spo2) => IsSet(device.smoothed_spo2)

(* C27 witness: with both smoothed values set, the second from a sample at *)
(* the edge of its range, a frame with HR:201 flagged valid was processed: *)
(* the reading is 201 and the smoothed values are what they were           *)
C27_Witness ==
    /\ Called
    /\ Call.line = Line(<<T_HR(201), T_HR_VALID(1)>>)
    /\ device.latest_data.hr = Some(201)
    /\ IsSet(Call.pre.smoothed_hr)
    /\ Call.pre.smoothed_spo2 = Some(100)
    /\ device.smoothed_hr = Call.pre.smoothed_hr
    /\ device.smoothed_spo2 = Call.pre.smoothed_spo2


---------------------------------------------------------------------------
LifecycleCalled == IsSet(conn)

LifecycleCall == Val(conn)

(* the device with connected and the status field taken from another *)
WithSessionOf(self, other) ==
    [self EXCEPT !.connected = other.connected,
                 !.latest_data.status = other.latest_data.status]

(* C28: connect() and disconnect() change nothing of the device but        *)
(* connected and latest_data['status'] (and the socket): the histories,    *)
(* the smoothing buffers, the smoothed values, the metrics and the other   *)
(* readings are after the call what they were before it.                   *)
C28_LifecycleKeepsData ==
    LifecycleCalled =>
        LifecycleCall.post = WithSessionOf(LifecycleCall.pre, LifecycleCall.post)

(* C28 witness: a connect() that succeeded on a disconnected device that   *)
(* had admitted two samples: they are still in the window, with the        *)
(* metrics computed from them                                              *)
C28_Witness ==
    /\ LifecycleCalled
    /\ LifecycleCall.call = "connect"
    /\ LifecycleCall.opens
    /\ LifecycleCall.pre.latest_data.status = S_disconnected
    /\ Len(LifecycleCall.pre.hr_history) = 2
    /\ IsSet(LifecycleCall.pre.metrics.bpm)
    /\ device.connected
    /\ device.hr_history = LifecycleCall.pre.hr_history
    /\ device.hr_smoothing_buffer = LifecycleCall.pre.hr_smoothing_buffer
    /\ device.metrics = LifecycleCall.pre.metrics

=============================================================================
